---- MODULE Spec2Model ----
(***************************************************************************)
(* A model of the retrieval engine of src/VectorDB.py: the VectorStore     *)
(* class (its FAISS index, its documents and metadata lists, the two       *)
(* persisted artifacts index.faiss and metadata.json) and the sessions of  *)
(* src/app.py that construct a VectorStore, rebuild it and query it.       *)
(*                                                                         *)
(* Vectors are sequences of integers.  A normalized vector is kept in      *)
(* fixed point (components in fifths), so that normalization and the inner *)
(* product are computed, not assumed; float32 rounding is not modelled.    *)
(* A row of the index is [nan, v]: nan says that every component is the    *)
(* float NaN, which is what a division by a zero norm produces.            *)
(***************************************************************************)
EXTENDS Integers, Sequences, FiniteSets, TLC

\* ------------------------------------------------------------------ bounds

\* Files in the source directory.
MaxFiles == 2
\* Largest n_results a query asks for.
MaxK == 3
\* Reranker scores are drawn from 0..MaxScore.
MaxScore == 1
\* Sessions (script runs of app.py) in the concurrent specification.
NumSessions == 2

\* VectorDB.py line 15 (384 in the program; the model's vectors have 2
\* components, which keeps every dimension check of the code meaningful).
dimension == 2

Sessions == 1..NumSessions
\* The session of the sequential specification.
MainSession == 1

\* The source directory: absent, or present with its files in os.listdir order.
NoDir == [exists |-> FALSE, files |-> <<>>]
Directory(files) == [exists |-> TRUE, files |-> files]
\* An artifact that does not exist, and the two that may.
NoFile == [exists |-> FALSE]
\* faiss.write_index of an IndexFlatIP: the dimension d, the number of rows
\* ntotal, and the components of all rows one after the other.  A component
\* is a float32, a number (in fifths) or NaN.
Component(row, c) == [nan |-> row.nan, x |-> row.v[c]]

IndexArtifact(rows) ==
    [exists |-> TRUE, d |-> dimension, ntotal |-> Len(rows),
     codes |-> [n \in 1..(Len(rows) * dimension) |->
                   Component(rows[((n - 1) \div dimension) + 1],
                             ((n - 1) % dimension) + 1)]]

\* The values of a JSON text.
JString(x) == [json |-> "string", value |-> x]
JNumber(x) == [json |-> "number", value |-> x]
JArray(items) == [json |-> "array", items |-> items]
JObject(members) == [json |-> "object", members |-> members]

\* json.dump of one metadata record: its keys in the order of the dict.
DumpRecord(meta) ==
    JObject(<< <<"source", JString(meta.source)>>,
               <<"chunk_index", JNumber(meta.chunk_index)>>,
               <<"file_type", JString(meta.file_type)>>,
               <<"header", JString(meta.header)>> >>)

\* json.dump({'documents': self.documents, 'metadata': self.metadata}, f)
MetadataArtifact(docs, meta) ==
    [exists |-> TRUE,
     text |-> JObject(<< <<"documents",
                           JArray([i \in 1..Len(docs) |-> JString(docs[i])])>>,
                         <<"metadata",
                           JArray([i \in 1..Len(meta) |-> DumpRecord(meta[i])])>> >>)]

\* faiss.read_index: the rows of d components each, a NaN in a row making it
\* a row that compares with nothing.
ReadIndexByColumns(file) ==
    [r \in 1..file.ntotal |->
        [nan |-> \E c \in 1..file.d : file.codes[(c - 1) * file.ntotal + r].nan,
         v |-> [c \in 1..file.d |-> file.codes[(c - 1) * file.ntotal + r].x]]]

ReadIndex(file) ==
    [r \in 1..file.ntotal |->
        [nan |-> \E c \in 1..file.d : file.codes[(r - 1) * file.d + c].nan,
         v |-> [c \in 1..file.d |-> file.codes[(r - 1) * file.d + c].x]]]

\* data[key] of a loaded JSON object.
Member(obj, key) ==
    obj.members[CHOOSE i \in 1..Len(obj.members) : obj.members[i][1] = key][2]

\* json.load of one metadata record: a dict of its keys.
LoadRecord(obj) ==
    [key \in { obj.members[i][1] : i \in 1..Len(obj.members) } |->
        Member(obj, key).value]

\* json.load(f)['documents'] and json.load(f)['metadata']
ReadDocuments(file) ==
    LET items == Member(file.text, "documents").items
    IN  [i \in 1..Len(items) |-> items[i].value]

ReadMetadata(file) ==
    LET items == Member(file.text, "metadata").items
    IN  [i \in 1..Len(items) |-> LoadRecord(items[i])]

VARIABLES
    srcDir,        \* embeddings_dir: NoDir or a Directory of file names
    indexFile,     \* persist_directory/index.faiss: NoFile or IndexArtifact
    metadataFile,  \* persist_directory/metadata.json: NoFile or MetadataArtifact
    pc,            \* per session: where its VectorStore is
    index,         \* per session: self.index (the rows, in insertion order)
    documents,     \* per session: self.documents
    metadata,      \* per session: self.metadata
    todo,          \* per session: file names the loop of load_embeddings has left
    atBegin,       \* per session (history): disk and store when load_embeddings began
    ret            \* what the most recent call did (return value, exception, print)

vars == <<srcDir, indexFile, metadataFile, pc, index, documents, metadata,
          todo, atBegin, ret>>

\* ---------------------------------------------------------- source files

EmbeddingsSuffix == "_embeddings.json"

\* A file name is <<stem, suffix>>; filename.endswith('_embeddings.json').
EndsWithEmbeddings(filename) == filename[2] = EmbeddingsSuffix

\* filename.replace('_embeddings.json', '.pdf')
SourceFile(filename) == <<filename[1], ".pdf">>

\* The files a source directory may hold.
FileNames ==
    { <<"good", EmbeddingsSuffix>>,       \* as embedding.save_chunked_texts writes it
      <<"nohdr", EmbeddingsSuffix>>,      \* no 'headers' field
      <<"shorthdr", EmbeddingsSuffix>>,   \* 'headers' shorter than 'chunks'
      <<"nochunks", EmbeddingsSuffix>>,   \* 'chunks' missing
      <<"noemb", EmbeddingsSuffix>>,      \* 'embeddings' missing
      <<"mismatch", EmbeddingsSuffix>>,   \* 3 chunks, 2 embeddings
      <<"zeronorm", EmbeddingsSuffix>>,   \* an all-zero embedding
      <<"wrongdim", EmbeddingsSuffix>>,   \* an embedding of the wrong dimension
      <<"good", "_chunks.txt">> }         \* the text file written beside the JSON

\* json.load of the file: a JSON object is a record, a missing field is a
\* field the record does not have.
FileData(filename) ==
    CASE filename[2] # EmbeddingsSuffix -> [text |-> "=== Chunk 1 ==="]
      [] filename[1] = "good" ->
            [chunks |-> <<"a0", "a1">>,
             headers |-> <<"INTRO", "Unknown">>,
             embeddings |-> << <<3, 4>>, <<2, 0>> >>]
      [] filename[1] = "nohdr" ->
            [chunks |-> <<"b0">>,
             embeddings |-> << <<0, 5>> >>]
      [] filename[1] = "shorthdr" ->
            [chunks |-> <<"c0", "c1">>,
             headers |-> <<"SCOPE">>,
             embeddings |-> << <<4, 3>>, <<0, 1>> >>]
      [] filename[1] = "nochunks" ->
            [headers |-> <<"LOST">>,
             embeddings |-> << <<1, 0>> >>]
      [] filename[1] = "noemb" ->
            [chunks |-> <<"e0">>,
             headers |-> <<"BARE">>]
      [] filename[1] = "mismatch" ->
            [chunks |-> <<"f0", "f1", "f2">>,
             headers |-> <<"ONE", "TWO", "THREE">>,
             embeddings |-> << <<0, 2>>, <<4, 3>> >>]
      [] filename[1] = "zeronorm" ->
            [chunks |-> <<"g0", "g1">>,
             headers |-> <<"NULL", "REAL">>,
             embeddings |-> << <<0, 0>>, <<3, 4>> >>]
      [] filename[1] = "wrongdim" ->
            [chunks |-> <<"h0", "h1">>,
             headers |-> <<"FINE", "WIDE">>,
             embeddings |-> << <<5, 0>>, <<1, 0, 0>> >>]

RECURSIVE ListingsOf(_, _)
\* Every os.listdir order of at most n distinct files of S.
ListingsOf(S, n) ==
    IF n = 0 THEN { <<>> }
    ELSE LET shorter == ListingsOf(S, n - 1)
             longer == { Append(l, f) : l \in shorter, f \in S }
         IN  shorter \cup
             { l \in longer : \A i, j \in 1..Len(l) : i # j => l[i] # l[j] }

SourceDirs == {NoDir} \cup { Directory(l) : l \in ListingsOf(FileNames, MaxFiles) }

\* The files of the directories that the query specification searches: stores
\* with every row searchable, with a NaN row, and with a chunk whose metadata
\* is missing.
QueryFileNames ==
    { <<"good", EmbeddingsSuffix>>, <<"nohdr", EmbeddingsSuffix>>,
      <<"shorthdr", EmbeddingsSuffix>>, <<"zeronorm", EmbeddingsSuffix>> }

QuerySourceDirs ==
    {NoDir} \cup { Directory(l) : l \in ListingsOf(QueryFileNames, MaxFiles) }

\* The files of the directories that the rewriting specification rebuilds
\* from: rebuilds that return, one of them over a truncated file, and a
\* rebuild that raises part-way.
RewriteFileNames ==
    { <<"good", EmbeddingsSuffix>>, <<"shorthdr", EmbeddingsSuffix>>,
      <<"mismatch", EmbeddingsSuffix>> }

RewriteSourceDirs ==
    {NoDir} \cup { Directory(l) : l \in ListingsOf(RewriteFileNames, MaxFiles) }

\* ------------------------------------------------------------ arithmetic

Min(a, b) == IF a <= b THEN a ELSE b

\* The integer square root (np.linalg.norm of the model's integer vectors).
ISqrt(n) == CHOOSE r \in 0..n : r * r <= n /\ (r + 1) * (r + 1) > n

RECURSIVE SumSq(_)
SumSq(v) == IF v = <<>> THEN 0 ELSE Head(v) * Head(v) + SumSq(Tail(v))

Norm(v) == ISqrt(SumSq(v))

\* embedding / np.linalg.norm(embedding): components in fifths; a zero norm
\* divides 0.0 by 0.0, which numpy answers with NaN in every component (a
\* warning, no exception).
Normalize(v) ==
    IF Norm(v) = 0 THEN [nan |-> TRUE, v |-> [i \in 1..Len(v) |-> 0]]
    ELSE [nan |-> FALSE, v |-> [i \in 1..Len(v) |-> (v[i] * 5) \div Norm(v)]]

RECURSIVE Dot(_, _)
\* The inner product IndexFlatIP computes (in twenty-fifths).
Dot(a, b) == IF a = <<>> THEN 0 ELSE Head(a) * Head(b) + Dot(Tail(a), Tail(b))

\* ------------------------------------------------------- the empty store

EmptyIndex == <<>>

NoRet == [op |-> "none", session |-> 0, status |-> "ok", error |-> "none",
          out |-> <<>>, q |-> <<>>, k |-> 0, rerank |-> FALSE, hits |-> <<>>,
          candidates |-> <<>>, scores |-> <<>>, results |-> <<>>]

Ret(op, s, status, error, out) ==
    [NoRet EXCEPT !.op = op, !.session = s, !.status = status,
                  !.error = error, !.out = out]

\* The history of a session that has not rebuilt yet.  dir is the directory
\* load_embeddings listed; rebuilt says that the store it found was left by a
\* load_embeddings of the same session over that same directory, which ended
\* with status prior.
NoHistory == [disk |-> <<NoFile, NoFile>>, store |-> <<EmptyIndex, <<>>, <<>> >>,
              dir |-> NoDir, rebuilt |-> FALSE, prior |-> "none"]

\* Nothing is persisted, no VectorStore is made yet; the source directory is
\* any of `dirs`.
InitWith(dirs) ==
    /\ srcDir \in dirs
    /\ indexFile = NoFile
    /\ metadataFile = NoFile
    /\ pc = [s \in Sessions |-> "new"]
    /\ index = [s \in Sessions |-> EmptyIndex]
    /\ documents = [s \in Sessions |-> <<>>]
    /\ metadata = [s \in Sessions |-> <<>>]
    /\ todo = [s \in Sessions |-> <<>>]
    /\ atBegin = [s \in Sessions |-> NoHistory]
    /\ ret = NoRet

Init == InitWith(SourceDirs)

InitQuery == InitWith(QuerySourceDirs)

InitRewrite == InitWith(RewriteSourceDirs)

\* --------------------------------------------------- __init__, _load_index

\* _load_index: the index is read when index.faiss exists, and documents and
\* metadata only when metadata.json exists as well.
LoadedIndex == IF indexFile.exists THEN ReadIndex(indexFile) ELSE EmptyIndex

LoadedDocuments ==
    IF indexFile.exists /\ metadataFile.exists
    THEN ReadDocuments(metadataFile) ELSE <<>>

LoadedMetadata ==
    IF indexFile.exists /\ metadataFile.exists
    THEN ReadMetadata(metadataFile) ELSE <<>>

\* VectorStore(): a session makes a new store (a run of the script of app.py
\* makes its own, dropping the one of the run before).
Construct(s) ==
    /\ pc[s] \in {"new", "ready", "answered"}
    /\ index' = [index EXCEPT ![s] = LoadedIndex]
    /\ documents' = [documents EXCEPT ![s] = LoadedDocuments]
    /\ metadata' = [metadata EXCEPT ![s] = LoadedMetadata]
    /\ pc' = [pc EXCEPT ![s] = "ready"]
    /\ ret' = Ret("init", s, "ok", "none", <<>>)
    /\ UNCHANGED <<srcDir, indexFile, metadataFile, todo, atBegin>>

\* ------------------------------------------------------- load_embeddings

\* data.get('headers', ["Unknown"] * len(chunks))
Headers(data) ==
    IF "headers" \in DOMAIN data THEN data.headers
    ELSE [i \in 1..Len(data.chunks) |-> "Unknown"]

\* The dict appended to self.metadata for chunk i (0-based) of a file.
ChunkRecord(source_file, i, header) ==
    [source |-> source_file, chunk_index |-> i, file_type |-> "pdf",
     header |-> header]

\* A store in the middle of a call: the three structures, and the exception
\* that ended the call ("none" while it runs).
Store(idx, docs, meta, error) ==
    [index |-> idx, documents |-> docs, metadata |-> meta, error |-> error]

RECURSIVE IngestChunks(_, _, _, _, _, _)
\* The loop over enumerate(zip(chunks, embeddings)) from chunk i on (0-based);
\* zip stops at the shorter of the two.  index.add raises on a vector whose
\* length is not the index's dimension, before anything is appended;
\* headers[i] raises IndexError after index.add and documents.append.
IngestChunks(st, chunks, embeddings, headers, source_file, i) ==
    IF i >= Min(Len(chunks), Len(embeddings)) THEN st
    ELSE LET embedding == Normalize(embeddings[i + 1])
         IN  IF Len(embedding.v) # dimension
             THEN [st EXCEPT !.error = "AssertionError"]
             ELSE IF i >= Len(headers)
             THEN Store(Append(st.index, embedding),
                        Append(st.documents, chunks[i + 1]),
                        st.metadata, "IndexError")
             ELSE IngestChunks(
                    Store(Append(st.index, embedding),
                          Append(st.documents, chunks[i + 1]),
                          Append(st.metadata,
                                 ChunkRecord(source_file, i, headers[i + 1])),
                          "none"),
                    chunks, embeddings, headers, source_file, i + 1)

\* One file of the loop: data['chunks'] and data['embeddings'] raise KeyError
\* on a missing field, before any chunk of the file is added.
IngestData(st, data, source_file) ==
    IF "chunks" \notin DOMAIN data \/ "embeddings" \notin DOMAIN data
    THEN [st EXCEPT !.error = "KeyError"]
    ELSE IngestChunks(st, data.chunks, data.embeddings, Headers(data),
                      source_file, 0)

\* What a session finds when its load_embeddings starts on an existing
\* directory (history, for the statements about two rebuilds in a row).
History(s) ==
    LET again == /\ ret.op = "load_embeddings"
                 /\ ret.session = s
                 /\ ret.status \in {"ok", "raised"}
                 /\ ret.out # <<"not found">>
                 /\ atBegin[s].dir = srcDir
    IN  [disk |-> <<indexFile, metadataFile>>,
         store |-> <<index[s], documents[s], metadata[s]>>,
         dir |-> srcDir,
         rebuilt |-> again,
         prior |-> IF again THEN ret.status ELSE "none"]

\* load_embeddings that does not clear the store it finds.
LoadEmbeddingsBeginNoClear(s) ==
    /\ pc[s] = "ready"
    /\ IF ~srcDir.exists
       THEN /\ ret' = Ret("load_embeddings", s, "ok", "none", <<"not found">>)
            /\ UNCHANGED <<pc, todo, atBegin>>
       ELSE /\ todo' = [todo EXCEPT ![s] = srcDir.files]
            /\ atBegin' = [atBegin EXCEPT ![s] = History(s)]
            /\ pc' = [pc EXCEPT ![s] = "ingest"]
            /\ ret' = Ret("load_embeddings", s, "running", "none", <<>>)
    /\ UNCHANGED <<srcDir, indexFile, metadataFile, index, documents, metadata>>

\* load_embeddings with the store cleared before the directory is looked for.
LoadEmbeddingsBeginClearFirst(s) ==
    /\ pc[s] = "ready"
    /\ index' = [index EXCEPT ![s] = EmptyIndex]
    /\ documents' = [documents EXCEPT ![s] = <<>>]
    /\ metadata' = [metadata EXCEPT ![s] = <<>>]
    /\ atBegin' = [atBegin EXCEPT ![s] = History(s)]
    /\ IF ~srcDir.exists
       THEN /\ ret' = Ret("load_embeddings", s, "ok", "none", <<"not found">>)
            /\ UNCHANGED <<pc, todo>>
       ELSE /\ todo' = [todo EXCEPT ![s] = srcDir.files]
            /\ pc' = [pc EXCEPT ![s] = "ingest"]
            /\ ret' = Ret("load_embeddings", s, "running", "none", <<>>)
    /\ UNCHANGED <<srcDir, indexFile, metadataFile>>

\* load_embeddings up to the loop: return when the directory is missing, else
\* clear the store and list the directory.
LoadEmbeddingsBegin(s) ==
    /\ pc[s] = "ready"
    /\ IF ~srcDir.exists
       THEN /\ ret' = Ret("load_embeddings", s, "ok", "none", <<"not found">>)
            /\ UNCHANGED <<pc, index, documents, metadata, todo, atBegin>>
       ELSE /\ index' = [index EXCEPT ![s] = EmptyIndex]
            /\ documents' = [documents EXCEPT ![s] = <<>>]
            /\ metadata' = [metadata EXCEPT ![s] = <<>>]
            /\ todo' = [todo EXCEPT ![s] = srcDir.files]
            /\ atBegin' = [atBegin EXCEPT ![s] = History(s)]
            /\ pc' = [pc EXCEPT ![s] = "ingest"]
            /\ ret' = Ret("load_embeddings", s, "running", "none", <<>>)
    /\ UNCHANGED <<srcDir, indexFile, metadataFile>>

\* One iteration of the loop over the listing.  A name without the suffix is
\* passed over; open() raises when the directory has gone since the listing;
\* an exception ends load_embeddings with the store as it then stands.
IngestFile(s) ==
    /\ pc[s] = "ingest"
    /\ todo[s] # <<>>
    /\ LET filename == Head(todo[s])
           st == IF ~EndsWithEmbeddings(filename)
                 THEN Store(index[s], documents[s], metadata[s], "none")
                 ELSE IF ~srcDir.exists
                 THEN Store(index[s], documents[s], metadata[s], "FileNotFoundError")
                 ELSE IngestData(Store(index[s], documents[s], metadata[s], "none"),
                                 FileData(filename), SourceFile(filename))
       IN  /\ index' = [index EXCEPT ![s] = st.index]
           /\ documents' = [documents EXCEPT ![s] = st.documents]
           /\ metadata' = [metadata EXCEPT ![s] = st.metadata]
           /\ IF st.error = "none"
              THEN /\ todo' = [todo EXCEPT ![s] = Tail(todo[s])]
                   /\ ret' = Ret("load_embeddings", s, "running", "none", <<>>)
                   /\ UNCHANGED pc
              ELSE /\ todo' = [todo EXCEPT ![s] = <<>>]
                   /\ pc' = [pc EXCEPT ![s] = "ready"]
                   /\ ret' = Ret("load_embeddings", s, "raised", st.error, <<>>)
    /\ UNCHANGED <<srcDir, indexFile, metadataFile, atBegin>>

\* _save_index, first write: faiss.write_index(self.index, index_path).
SaveIndex(s) ==
    /\ pc[s] = "ingest"
    /\ todo[s] = <<>>
    /\ indexFile' = IndexArtifact(index[s])
    /\ pc' = [pc EXCEPT ![s] = "save_metadata"]
    /\ ret' = Ret("load_embeddings", s, "running", "none", <<>>)
    /\ UNCHANGED <<srcDir, metadataFile, index, documents, metadata, todo, atBegin>>

\* _save_index, second write: json.dump of documents and metadata; then the
\* closing print of load_embeddings, whose os.listdir raises when the
\* directory has gone.
SaveMetadata(s) ==
    /\ pc[s] = "save_metadata"
    /\ metadataFile' = MetadataArtifact(documents[s], metadata[s])
    /\ pc' = [pc EXCEPT ![s] = "ready"]
    /\ ret' = IF srcDir.exists
              THEN Ret("load_embeddings", s, "ok", "none",
                       <<"Loaded", Len(documents[s]), Len(srcDir.files)>>)
              ELSE Ret("load_embeddings", s, "raised", "FileNotFoundError", <<>>)
    /\ UNCHANGED <<srcDir, indexFile, index, documents, metadata, todo, atBegin>>

InFlight == {"ingest", "save_metadata"}

\* The process is killed while the session is inside load_embeddings: its
\* VectorStore is gone, the files are as they were written so far.
Interrupt(s) ==
    /\ pc[s] \in InFlight
    /\ pc' = [pc EXCEPT ![s] = "new"]
    /\ index' = [index EXCEPT ![s] = EmptyIndex]
    /\ documents' = [documents EXCEPT ![s] = <<>>]
    /\ metadata' = [metadata EXCEPT ![s] = <<>>]
    /\ todo' = [todo EXCEPT ![s] = <<>>]
    /\ ret' = Ret("load_embeddings", s, "interrupted", "none", <<>>)
    /\ UNCHANGED <<srcDir, indexFile, metadataFile, atBegin>>

\* The environment removes the source directory.
RemoveSourceDir ==
    /\ srcDir.exists
    /\ srcDir' = NoDir
    /\ UNCHANGED <<indexFile, metadataFile, pc, index, documents, metadata,
                   todo, atBegin, ret>>

\* The ingestion pipeline (embedding.save_chunked_texts, or the user) gives
\* the source directory other contents, between two rebuilds.
WriteSourceDir ==
    /\ \A s \in Sessions : pc[s] \notin InFlight
    /\ srcDir' \in RewriteSourceDirs \ {srcDir}
    /\ UNCHANGED <<indexFile, metadataFile, pc, index, documents, metadata,
                   todo, atBegin, ret>>

\* ------------------------------------------------------------------ query

\* The query embeddings: self.model.encode(query_text), normalized.
QueryVectors == { Normalize(<<1, 0>>).v, Normalize(<<3, 4>>).v }

\* Positions (0-based) of the rows a search can return.  A NaN row never
\* compares greater than the running threshold, so faiss never returns it.
Searchable(idx) == { p \in 0..(Len(idx) - 1) : ~idx[p + 1].nan }

\* The similarity of row p to the query.
Similarity(idx, q, p) == Dot(idx[p + 1].v, q)

RECURSIVE TopK(_, _, _, _)
\* The orders in which the best k of `rows` may come, best first; rows of
\* equal similarity in either order (faiss documents none).
TopK(idx, q, rows, k) ==
    IF k = 0 \/ rows = {} THEN { <<>> }
    ELSE LET best == { p \in rows :
                         \A r \in rows : Similarity(idx, q, p) >= Similarity(idx, q, r) }
         IN  UNION { { <<p>> \o t : t \in TopK(idx, q, rows \ {p}, k - 1) } : p \in best }

\* index.search(query, k): k labels, the missing ones -1.
Search(idx, q, k) ==
    { [i \in 1..k |-> IF i <= Len(found) THEN found[i] ELSE -1] :
        found \in TopK(idx, q, Searchable(idx), k) }

\* The loop of query without its test: every label is taken for a hit.
HitAny(idx) == TRUE

\* The test `if idx >= 0` on a label of the search.
Hit(idx) == idx >= 0

\* list[idx] of Python: positions -len..len-1 exist, -1 being the last.
InList(list, idx) == -Len(list) <= idx /\ idx < Len(list)
Item(list, idx) == IF idx >= 0 THEN list[idx + 1] ELSE list[Len(list) + idx + 1]

RECURSIVE Resolve(_, _, _, _, _, _, _)
\* The loop over indices[0] from entry i on (1-based): each hit becomes a
\* result; self.documents[idx] or self.metadata[idx] raises IndexError on a
\* position the list does not have.
Resolve(hits, idx, q, docs, meta, i, results) ==
    IF i > Len(hits) THEN [error |-> "none", results |-> results]
    ELSE IF ~Hit(hits[i])
    THEN Resolve(hits, idx, q, docs, meta, i + 1, results)
    ELSE IF ~InList(docs, hits[i]) \/ ~InList(meta, hits[i])
    THEN [error |-> "IndexError", results |-> results]
    ELSE Resolve(hits, idx, q, docs, meta, i + 1,
                 Append(results,
                        [text |-> Item(docs, hits[i]),
                         distance |-> IF hits[i] >= 0
                                      THEN Similarity(idx, q, hits[i]) ELSE -1,
                         metadata |-> Item(meta, hits[i])]))

RECURSIVE InsertDesc(_, _)

\* A descending sort that is not stable (sort ascending, then reverse): the
\* pair goes before the pairs of equal score.
InsertDescReversingTies(pair, sorted) ==
    IF sorted = <<>> THEN <<pair>>
    ELSE IF Head(sorted)[1] > pair[1]
    THEN <<Head(sorted)>> \o InsertDesc(pair, Tail(sorted))
    ELSE <<pair>> \o sorted

\* One step of sorted(zip(scores, results), reverse=True, key=...): the pair
\* goes after every pair whose score is not smaller, which keeps pairs of
\* equal score in their original order (reverse=True keeps the sort stable).
InsertDesc(pair, sorted) ==
    IF sorted = <<>> THEN <<pair>>
    ELSE IF Head(sorted)[1] >= pair[1]
    THEN <<Head(sorted)>> \o InsertDesc(pair, Tail(sorted))
    ELSE <<pair>> \o sorted

RECURSIVE SortDesc(_, _)
SortDesc(pairs, sorted) ==
    IF pairs = <<>> THEN sorted
    ELSE SortDesc(Tail(pairs), InsertDesc(Head(pairs), sorted))

\* ranked = sorted(zip(scores, results), ...); results = [r for _, r in ranked]
Rerank(scores, results) ==
    LET pairs == [i \in 1..Min(Len(scores), Len(results)) |-> <<scores[i], results[i]>>]
        ranked == SortDesc(pairs, <<>>)
    IN  [i \in 1..Len(ranked) |-> ranked[i][2]]

\* query(query_text, n_results, rerank): the store is only read.  The query is
\* the last call a run makes on its VectorStore (app.py line 152, VectorDB.py
\* line 140); the run that follows constructs a new one.
Query(s) ==
    /\ pc[s] = "ready"
    /\ \E q \in QueryVectors, k \in 1..MaxK, rerank \in BOOLEAN :
         \E hits \in Search(index[s], q, k) :
           LET found == Resolve(hits, index[s], q, documents[s], metadata[s], 1, <<>>)
               call == [Ret("query", s, "ok", "none", <<>>)
                          EXCEPT !.q = q, !.k = k, !.rerank = rerank,
                                 !.hits = hits]
           IN  IF found.error # "none"
               THEN ret' = [call EXCEPT !.status = "raised", !.error = found.error]
               ELSE IF rerank /\ found.results # <<>>
               THEN \E scores \in [1..Len(found.results) -> 0..MaxScore] :
                      ret' = [call EXCEPT !.candidates = found.results,
                                          !.scores = scores,
                                          !.results = Rerank(scores, found.results)]
               ELSE ret' = [call EXCEPT !.candidates = found.results,
                                        !.results = found.results]
    /\ pc' = [pc EXCEPT ![s] = "answered"]
    /\ UNCHANGED <<srcDir, indexFile, metadataFile, index, documents,
                   metadata, todo, atBegin>>

\* get_all_documents: a record for every pair of zip(documents, metadata),
\* which stops at the shorter of the two.  Like query it is the last call a
\* session makes on its store.
GetAllDocuments(s) ==
    /\ pc[s] = "ready"
    /\ ret' = [Ret("get_all_documents", s, "ok", "none", <<>>) EXCEPT
                 !.results = [i \in 1..Min(Len(documents[s]), Len(metadata[s])) |->
                                 [text |-> documents[s][i],
                                  metadata |-> metadata[s][i]]]]
    /\ pc' = [pc EXCEPT ![s] = "answered"]
    /\ UNCHANGED <<srcDir, indexFile, metadataFile, index, documents,
                   metadata, todo, atBegin>>

\* --------------------------------------------------------- specifications

\* One session: a VectorStore is made and rebuilt, any number of times; the
\* process may be killed during a rebuild and the directory removed.
Next ==
    \/ Construct(MainSession)
    \/ LoadEmbeddingsBegin(MainSession)
    \/ IngestFile(MainSession)
    \/ SaveIndex(MainSession)
    \/ SaveMetadata(MainSession)
    \/ Interrupt(MainSession)
    \/ RemoveSourceDir

Spec == Init /\ [][Next]_vars

\* One session that also reads its VectorStore, with query or with
\* get_all_documents: after construction, after a rebuild that returned and
\* after one that raised.
NextQuery ==
    \/ Construct(MainSession)
    \/ LoadEmbeddingsBegin(MainSession)
    \/ IngestFile(MainSession)
    \/ SaveIndex(MainSession)
    \/ SaveMetadata(MainSession)
    \/ Interrupt(MainSession)
    \/ Query(MainSession)
    \/ GetAllDocuments(MainSession)

SpecQuery == InitQuery /\ [][NextQuery]_vars

\* One session that rebuilds again and again while the contents of the source
\* directory change between its rebuilds.
NextRewrite ==
    \/ Construct(MainSession)
    \/ LoadEmbeddingsBegin(MainSession)
    \/ IngestFile(MainSession)
    \/ SaveIndex(MainSession)
    \/ SaveMetadata(MainSession)
    \/ WriteSourceDir

SpecRewrite == InitRewrite /\ [][NextRewrite]_vars

\* Sessions of app.py running at once over the same two directories: each
\* makes its own VectorStore and rebuilds it.
NextConcurrent ==
    \/ \E s \in Sessions : Construct(s)
    \/ \E s \in Sessions : LoadEmbeddingsBegin(s)
    \/ \E s \in Sessions : IngestFile(s)
    \/ \E s \in Sessions : SaveIndex(s)
    \/ \E s \in Sessions : SaveMetadata(s)
    \/ \E s \in Sessions : Interrupt(s)

SpecConcurrent == Init /\ [][NextConcurrent]_vars

\* ----------------------------------------------------------------- claims

\* The call that has just ended is load_embeddings of session s, by a return
\* or by an exception.
RebuildEnded(s) ==
    /\ ret.op = "load_embeddings"
    /\ ret.session = s
    /\ ret.status \in {"ok", "raised"}

\* The pair of artifacts on disk.
DiskPair == <<indexFile, metadataFile>>

\* C1: in every state the index of a VectorStore has as many rows as
\* documents has texts and metadata has records.
C1_StoreAligned ==
    \A s \in Sessions :
        /\ Len(index[s]) = Len(documents[s])
        /\ Len(documents[s]) = Len(metadata[s])

\* C2: after a rebuild was interrupted, the two artifacts on disk are the
\* pair the rebuild found (an interrupted rebuild has not written both of its
\* own), never one artifact of each store.
C2_InterruptKeepsPair ==
    \A s \in Sessions :
        (ret.op = "load_embeddings" /\ ret.session = s
            /\ ret.status = "interrupted") => DiskPair = atBegin[s].disk

\* One artifact without the other, or an index whose size is not the number
\* of stored chunk records.
DiskCorrupt ==
    \/ indexFile.exists # metadataFile.exists
    \/ /\ indexFile.exists
       /\ metadataFile.exists
       /\ indexFile.ntotal # Len(ReadDocuments(metadataFile))

\* C3: constructing a VectorStore over corrupt artifacts fails; it never
\* returns a store.
C3_CorruptLoadFails ==
    (ret.op = "init" /\ DiskCorrupt) => ret.status # "ok"

\* C4: at most one load_embeddings is in flight at a time, and no session
\* loads the artifacts while another session is between its two writes.
C4_RebuildExclusive ==
    /\ Cardinality({ s \in Sessions : pc[s] \in InFlight }) <= 1
    /\ ret.op = "init" => \A t \in Sessions : pc[t] # "save_metadata"

\* A malformed ingestion file: a required field missing, or chunks and
\* embeddings of different lengths.
Malformed(data) ==
    \/ "chunks" \notin DOMAIN data
    \/ "embeddings" \notin DOMAIN data
    \/ Len(data.chunks) # Len(data.embeddings)

\* A well-formed file with nothing else wrong: a header for every chunk (or
\* no headers field) and embeddings of the index's dimension.
Clean(data) ==
    /\ ~Malformed(data)
    /\ "headers" \in DOMAIN data => Len(data.headers) >= Len(data.chunks)
    /\ \A i \in 1..Len(data.embeddings) : Len(data.embeddings[i]) = dimension

RECURSIVE WellFormedChunks(_)
\* The chunks of the well-formed ingestion files of a listing, in order.
WellFormedChunks(files) ==
    IF files = <<>> THEN <<>>
    ELSE (IF EndsWithEmbeddings(Head(files)) /\ ~Malformed(FileData(Head(files)))
          THEN FileData(Head(files)).chunks ELSE <<>>)
         \o WellFormedChunks(Tail(files))

\* A directory whose ingestion files are each malformed or clean.
OnlyMalformedOrClean(files) ==
    \A i \in 1..Len(files) :
        EndsWithEmbeddings(files[i]) =>
            Malformed(FileData(files[i])) \/ Clean(FileData(files[i]))

\* C5: a rebuild over malformed and clean files returns, and the store in
\* memory and on disk holds exactly the chunks of the well-formed files.
C5_MalformedSkipped ==
    \A s \in Sessions :
        (RebuildEnded(s) /\ srcDir.exists /\ OnlyMalformedOrClean(srcDir.files)) =>
            /\ ret.status = "ok"
            /\ documents[s] = WellFormedChunks(srcDir.files)
            /\ Len(index[s]) = Len(documents[s])
            /\ metadataFile.exists
            /\ ReadDocuments(metadataFile) = documents[s]

\* C6: when load_embeddings has ended, the store is the one the call found
\* or the one a completed rebuild made, and it is the store on disk.
C6_RebuildAtomic ==
    \A s \in Sessions :
        RebuildEnded(s) =>
            /\ \/ <<index[s], documents[s], metadata[s]>> = atBegin[s].store
               \/ ret.status = "ok"
            /\ index[s] = LoadedIndex
            /\ documents[s] = LoadedDocuments
            /\ metadata[s] = LoadedMetadata

\* C7: a load_embeddings step taken while the source directory is missing
\* changes neither the store nor the artifacts, and returns.
C7_MissingDirNoOp ==
    [][\A s \in Sessions :
         (pc[s] = "ready" /\ ~srcDir.exists
            /\ ret'.op = "load_embeddings" /\ ret'.session = s) =>
              /\ index'[s] = index[s]
              /\ documents'[s] = documents[s]
              /\ metadata'[s] = metadata[s]
              /\ indexFile' = indexFile
              /\ metadataFile' = metadataFile
              /\ pc'[s] = "ready"
              /\ ret'.status = "ok"]_vars

\* A populated store, saved, whose load_embeddings found no directory.
C7_Witness ==
    /\ ret.op = "load_embeddings"
    /\ ret.out = <<"not found">>
    /\ ~srcDir.exists
    /\ Len(documents[ret.session]) >= 2
    /\ indexFile.exists
    /\ metadataFile.exists

\* C8: a query on a store whose index holds no vector returns the empty
\* sequence, whatever n_results and rerank are.
C8_EmptyQueryEmpty ==
    (ret.op = "query" /\ index[ret.session] = EmptyIndex) =>
        /\ ret.status = "ok"
        /\ ret.results = <<>>

\* A query with rerank on and the largest n_results, on an engine with no
\* persisted store.
C8_Witness ==
    /\ ret.op = "query"
    /\ ret.rerank
    /\ ret.k = MaxK
    /\ index[ret.session] = EmptyIndex
    /\ ~indexFile.exists
    /\ ~metadataFile.exists

\* C9: a query never fails, and returns one candidate for each position of
\* the search that the chunk store has.
C9_OutOfRangeDropped ==
    ret.op = "query" =>
        /\ ret.status = "ok"
        /\ Len(ret.candidates) =
             Cardinality({ i \in 1..Len(ret.hits) :
                             /\ 0 <= ret.hits[i]
                             /\ ret.hits[i] < Len(documents[ret.session])
                             /\ ret.hits[i] < Len(metadata[ret.session]) })

\* The orders of n candidates: the permutations of 1..n.
RankOrders(n) ==
    { f \in [1..n -> 1..n] : \A i, j \in 1..n : f[i] = f[j] => i = j }

\* C10: with rerank on, the results are the candidates of the search, by
\* descending reranker score and, among equal scores, by ascending rank in
\* the search; equal scores throughout leave the order of the search.
C10_RerankStableDescending ==
    (ret.op = "query" /\ ret.status = "ok" /\ ret.rerank /\ ret.candidates # <<>>) =>
        LET n == Len(ret.candidates)
        IN  /\ Len(ret.results) = n
            /\ Len(ret.scores) = n
            /\ \E rank \in RankOrders(n) :
                 /\ \A i \in 1..n : ret.results[i] = ret.candidates[rank[i]]
                 /\ \A i, j \in 1..n :
                      i < j =>
                        \/ ret.scores[rank[i]] > ret.scores[rank[j]]
                        \/ /\ ret.scores[rank[i]] = ret.scores[rank[j]]
                           /\ rank[i] < rank[j]
            /\ (\A i, j \in 1..n : ret.scores[i] = ret.scores[j]) =>
                 ret.results = ret.candidates

\* A reranked query with a tie among the scores and a candidate moved up.
C10_Witness ==
    /\ ret.op = "query"
    /\ ret.status = "ok"
    /\ ret.rerank
    /\ Len(ret.candidates) >= 3
    /\ \E i, j \in 1..Len(ret.scores) : i < j /\ ret.scores[i] = ret.scores[j]
    /\ ret.results # ret.candidates

\* A store whose three structures have the same size.
Aligned(s) ==
    /\ Len(index[s]) = Len(documents[s])
    /\ Len(documents[s]) = Len(metadata[s])

\* C11: without rerank, a query for k results on an aligned store of N chunks
\* returns min(k, N) results: distinct stored chunks, each with its own text,
\* metadata and similarity, by descending similarity, none of the chunks left
\* out being more similar than one returned.
C11_TopKBySimilarity ==
    (ret.op = "query" /\ ~ret.rerank /\ Aligned(ret.session)) =>
        LET s == ret.session
            N == Len(documents[s])
            n == Min(ret.k, N)
        IN  /\ ret.status = "ok"
            /\ Len(ret.results) = n
            /\ \A i \in 1..n :
                 /\ ret.hits[i] \in 0..(N - 1)
                 /\ ret.results[i].text = documents[s][ret.hits[i] + 1]
                 /\ ret.results[i].metadata = metadata[s][ret.hits[i] + 1]
                 /\ ret.results[i].distance = Similarity(index[s], ret.q, ret.hits[i])
            /\ \A i, j \in 1..n :
                 i < j => /\ ret.hits[i] # ret.hits[j]
                          /\ ret.results[i].distance >= ret.results[j].distance
            /\ \A p \in 0..(N - 1) :
                 (\A i \in 1..n : ret.hits[i] # p) =>
                    \A i \in 1..n :
                       ret.results[i].distance >= Similarity(index[s], ret.q, p)

\* C12: a load_embeddings that follows a load_embeddings of the same session
\* over the same directory ends as the first did and leaves the store the first
\* left: the same rows, documents and metadata, in memory and on disk.
C12_RebuildIdempotent ==
    \A s \in Sessions :
        (RebuildEnded(s) /\ ret.out # <<"not found">>
            /\ atBegin[s].rebuilt /\ atBegin[s].dir = srcDir) =>
            /\ <<index[s], documents[s], metadata[s]>> = atBegin[s].store
            /\ DiskPair = atBegin[s].disk
            /\ ret.status = atBegin[s].prior

\* A second rebuild over an unchanged directory of two files that returned
\* and persisted a store of at least three chunks.
C12_Witness ==
    /\ RebuildEnded(MainSession)
    /\ ret.status = "ok"
    /\ atBegin[MainSession].rebuilt
    /\ atBegin[MainSession].dir = srcDir
    /\ Len(srcDir.files) = 2
    /\ Len(documents[MainSession]) >= 3
    /\ metadataFile.exists
    /\ ReadDocuments(metadataFile) = documents[MainSession]

\* An embedding of the index's dimension that normalizes to a unit vector.
ValidEmbedding(e) == Len(e) = dimension /\ Norm(e) > 0

\* A well-formed file with a header for every chunk: nothing can be wrong
\* with it but its vectors.
WrongOnlyInVectors(data) ==
    /\ ~Malformed(data)
    /\ "headers" \in DOMAIN data => Len(data.headers) >= Len(data.chunks)

RECURSIVE ChunksWithValidEmbedding(_, _, _)
\* The chunks from position i on (1-based) whose embedding is valid, in order.
ChunksWithValidEmbedding(chunks, embeddings, i) ==
    IF i > Len(chunks) THEN <<>>
    ELSE (IF ValidEmbedding(embeddings[i]) THEN <<chunks[i]>> ELSE <<>>)
            \o ChunksWithValidEmbedding(chunks, embeddings, i + 1)

RECURSIVE ValidChunks(_)
\* The chunks with a valid embedding of the ingestion files of a listing.
ValidChunks(files) ==
    IF files = <<>> THEN <<>>
    ELSE (IF EndsWithEmbeddings(Head(files))
          THEN ChunksWithValidEmbedding(FileData(Head(files)).chunks,
                                        FileData(Head(files)).embeddings, 1)
          ELSE <<>>) \o ValidChunks(Tail(files))

\* C13: a rebuild over files that have nothing wrong but their vectors
\* returns, with exactly the chunks whose embedding is valid in documents, as
\* many rows as documents, and no row that is not a number.
C13_InvalidEmbeddingRejected ==
    \A s \in Sessions :
        (RebuildEnded(s) /\ ret.out # <<"not found">>
            /\ srcDir = atBegin[s].dir
            /\ \A i \in 1..Len(srcDir.files) :
                  EndsWithEmbeddings(srcDir.files[i]) =>
                      WrongOnlyInVectors(FileData(srcDir.files[i]))) =>
            /\ ret.status = "ok"
            /\ documents[s] = ValidChunks(srcDir.files)
            /\ Len(index[s]) = Len(documents[s])
            /\ \A r \in 1..Len(index[s]) : ~index[s][r].nan

\* C15: a VectorStore constructed right after a load_embeddings that returned
\* (and so ended with _save_index) holds the rows, documents and metadata, in
\* the same order, of the store that was saved.
C15_SaveLoadRoundTrip ==
    [][(/\ ret.op = "load_embeddings"
        /\ ret.status = "ok"
        /\ ret.out # <<"not found">>
        /\ ret'.op = "init") =>
            /\ index'[ret'.session] = index[ret.session]
            /\ documents'[ret'.session] = documents[ret.session]
            /\ metadata'[ret'.session] = metadata[ret.session]]_vars

\* A VectorStore was constructed over the artifacts of a saved store of at
\* least three chunks, one of them with a row of NaN.
C15_Witness ==
    /\ ret.op = "init"
    /\ indexFile.exists
    /\ metadataFile.exists
    /\ indexFile.ntotal >= 3
    /\ Len(metadata[MainSession]) = indexFile.ntotal
    /\ \E r \in 1..Len(index[MainSession]) : index[MainSession][r].nan

\* The (text, embedding) pairs of one ingestion file, in file order, each
\* with the document it comes from and its position in that document.
PairsOf(filename) ==
    LET data == FileData(filename)
        n == Min(Len(data.chunks), Len(data.embeddings))
    IN  [i \in 1..n |-> [text |-> data.chunks[i],
                         row |-> Normalize(data.embeddings[i]),
                         source |-> SourceFile(filename),
                         chunk_index |-> i - 1]]

RECURSIVE PairsOfListing(_)
\* The pairs of the ingestion files of a listing, file after file.
PairsOfListing(files) ==
    IF files = <<>> THEN <<>>
    ELSE (IF EndsWithEmbeddings(Head(files)) THEN PairsOf(Head(files)) ELSE <<>>)
            \o PairsOfListing(Tail(files))

\* C14: after a load_embeddings that returned, the store in memory and the
\* store on disk hold exactly the pairs of the directory's ingestion files,
\* file after file and in file order, each normalized, with its source and
\* with chunk_index 0, 1, ... within its document; nothing of the store the
\* rebuild found is left.
C14_RebuildOverwrites ==
    \A s \in Sessions :
        (RebuildEnded(s) /\ ret.status = "ok" /\ ret.out # <<"not found">>) =>
            LET pairs == PairsOfListing(atBegin[s].dir.files)
            IN  /\ Len(index[s]) = Len(pairs)
                /\ Len(documents[s]) = Len(pairs)
                /\ Len(metadata[s]) = Len(pairs)
                /\ \A i \in 1..Len(pairs) :
                      /\ index[s][i] = pairs[i].row
                      /\ documents[s][i] = pairs[i].text
                      /\ metadata[s][i].source = pairs[i].source
                      /\ metadata[s][i].chunk_index = pairs[i].chunk_index
                /\ indexFile.exists /\ metadataFile.exists
                /\ ReadIndex(indexFile) = index[s]
                /\ ReadDocuments(metadataFile) = documents[s]
                /\ ReadMetadata(metadataFile) = metadata[s]

\* A rebuild over a directory of two files returned, having found a store of
\* other documents, in memory and on disk.
C14_Witness ==
    /\ RebuildEnded(MainSession)
    /\ ret.status = "ok"
    /\ Len(srcDir.files) = 2
    /\ Len(documents[MainSession]) >= 3
    /\ atBegin[MainSession].store[2] # <<>>
    /\ atBegin[MainSession].store[2] # documents[MainSession]
    /\ atBegin[MainSession].disk[2].exists
    /\ ReadDocuments(atBegin[MainSession].disk[2]) # documents[MainSession]

\* The chunks of an ingestion file that have no entry in its headers.
WithoutHeader(data) ==
    IF "headers" \in DOMAIN data
    THEN { i \in 1..Len(data.chunks) : i > Len(data.headers) }
    ELSE 1..Len(data.chunks)

\* C16: a rebuild over one well-formed file with vectors of the index's
\* dimension returns with every chunk of the file in the index, in documents
\* and in metadata, and with the header "Unknown" for every chunk that has
\* no entry in the file's headers.
C16_MissingHeaderUnknown ==
    \A s \in Sessions :
        (/\ RebuildEnded(s) /\ ret.out # <<"not found">>
         /\ srcDir = atBegin[s].dir
         /\ Len(srcDir.files) = 1
         /\ EndsWithEmbeddings(srcDir.files[1])
         /\ ~Malformed(FileData(srcDir.files[1]))
         /\ \A i \in 1..Len(FileData(srcDir.files[1]).embeddings) :
               Len(FileData(srcDir.files[1]).embeddings[i]) = dimension) =>
            LET data == FileData(srcDir.files[1])
            IN  /\ ret.status = "ok"
                /\ Len(index[s]) = Len(data.chunks)
                /\ documents[s] = data.chunks
                /\ Len(metadata[s]) = Len(data.chunks)
                /\ \A i \in WithoutHeader(data) : metadata[s][i].header = "Unknown"

\* C17: a step of query or of get_all_documents leaves the index, documents
\* and metadata of every session and both artifacts as they were, and
\* get_all_documents returns one record for every stored chunk, in store
\* order, with the chunk's text and its metadata.
C17_ReadsAreReadOnly ==
    [][\A s \in Sessions :
          (pc[s] = "ready" /\ pc'[s] = "answered") =>
              /\ UNCHANGED <<index, documents, metadata, indexFile, metadataFile>>
              /\ ret'.op = "get_all_documents" =>
                    /\ Len(ret'.results) = Len(documents[s])
                    /\ \A i \in 1..Len(ret'.results) :
                          /\ ret'.results[i].text = documents[s][i]
                          /\ ret'.results[i].metadata = metadata[s][i]]_vars

====
